---------------------------- MODULE Spec2Model ----------------------------
(***************************************************************************)
(* Model of the command / pipeline core of model_navigator's framework_api *)
(*                                                                         *)
(*   utils.py                    Status, JitType,                          *)
(*                               format_to_relative_model_path,            *)
(*                               to_numpy, sample_to_tuple, extract_sample *)
(*   commands/convert/tf.py      ConvertSavedModel2ONNX.__call__,          *)
(*                               ConvertSavedModel2TFTRT.__call__          *)
(*   pipelines/pipeline_manager_pyt.py                                     *)
(*                               TorchPipelineManager._get_pipeline        *)
(*                                                                         *)
(* Five specifications share the module, each leaving the variables of     *)
(* the others idle.  The executor (Pipeline.execute, Command.transform)    *)
(* and Command.get_output_relative_path lie outside the files above and    *)
(* are modelled from the design document.                                  *)
(*   SpecPath      the artifact path resolver applied to every argument    *)
(*                 combination                                             *)
(*   SpecConvert   one SavedModel conversion command invoked (and          *)
(*                 re-invoked) against a working directory                 *)
(*   SpecPipeline  the PyTorch pipeline builder applied to configurations  *)
(*   SpecSample    extract_sample applied to every accepted sample         *)
(*   Spec          the sequential executor walking a dependency graph      *)
(*                 (FairSpec: the same with weak fairness of its steps)    *)
(***************************************************************************)
EXTENDS Naturals, Sequences, FiniteSets, TLC

VARIABLES
    args,       \* SpecPath: the arguments of format_to_relative_model_path
    result,     \* SpecPath: what the call returned or raised
    config,     \* SpecPipeline: the configuration handed to _get_pipeline
    pipeline,   \* SpecPipeline: the Pipeline's command list, <<>> before the call
    cmd,        \* SpecConvert: the conversion Command (class and constructor arguments)
    workdir,    \* SpecConvert: the paths that exist under the working directory
    gpus,       \* SpecConvert: whether devices.get_available_gpus() is non-empty
    cstatus,    \* SpecConvert: the Command's status attribute
    returned,   \* SpecConvert: what the last __call__ returned (None: nothing)
    raised,     \* SpecConvert: whether the last __call__ raised
    tool_runs,  \* SpecConvert: external conversions started by the last __call__
    before,     \* SpecConvert: the working directory as the last __call__ found it
    cpc,        \* SpecConvert: "ready", "returned" (body over, status not recorded), "done"
    run,        \* SpecConvert: the number of the current run of the pipeline
    requires,   \* Spec: each Command's requires, as the set of Commands it names
    outcome,    \* Spec: what each Command's body does when it is invoked
    status,     \* Spec: each Command's status attribute
    invoked,    \* Spec: how many times each Command's body was invoked
    visits,     \* Spec: how many times the executor visited each Command
    report,     \* Spec: the run report, Command -> recorded status
    exc,        \* Spec: whether the body that just ran raised
    current,    \* Spec: the Command whose body just ran (0: none)
    pc,         \* Spec: "walk", "body" (body over, status not recorded), "done"
    sample,     \* SpecSample: the sample a dataloader supplied
    input_metadata, \* SpecSample: the input names, in the metadata's order
    framework,  \* SpecSample: the active framework
    extracted,  \* SpecSample: what extract_sample returned, or that it raised
    spc         \* SpecSample: "ready", "done"

pathVars == <<args, result>>
pipeVars == <<config, pipeline>>
convVars == <<cmd, workdir, gpus, cstatus, returned, raised, tool_runs, before, cpc, run>>

execVars == <<requires, outcome, status, invoked, visits, report, exc, current, pc>>

sampleVars == <<sample, input_metadata, framework, extracted, spc>>

vars == <<args, result, config, pipeline,
          cmd, workdir, gpus, cstatus, returned, raised, tool_runs, before, cpc, run,
          requires, outcome, status, invoked, visits, report, exc, current, pc,
          sample, input_metadata, framework, extracted, spc>>

(***************************************************************************)
(* Python values.  None and the booleans of an Optional[bool] are strings  *)
(* so that one argument can range over all three.                          *)
(***************************************************************************)
None == "None"
PyTrue == "True"
PyFalse == "False"
OptBool == {None, PyTrue, PyFalse}

\* bool(v) of an Optional enum member: a member is truthy, None is not.
Truthy(v) == v # None

(***************************************************************************)
(* Enumerations                                                            *)
(***************************************************************************)
\* utils.Status
OK == "OK"
FAIL == "FAIL"
NOOP == "NOOP"
INITIALIZED == "INITIALIZED"
SKIPPED == "SKIPPED"
Status == {OK, FAIL, NOOP, INITIALIZED, SKIPPED}

\* utils.JitType, by value
JitType == {"script", "trace"}

\* converter.config.TensorRTPrecision, by value
TensorRTPrecision == {"fp32", "fp16"}

\* model.Format, by member name; the six members the framework API uses
Format == {"ONNX", "TORCHSCRIPT", "TORCH_TRT", "TF_SAVEDMODEL", "TF_TRT", "TENSORRT"}

\* A format argument that is a Format member other than the six above.
OTHER_FORMAT == "OTHER"

\* Format.<member>.value
FormatValue(format) ==
    CASE format = "ONNX" -> "onnx"
      [] format = "TORCHSCRIPT" -> "torchscript"
      [] format = "TORCH_TRT" -> "torch-trt"
      [] format = "TF_SAVEDMODEL" -> "tf-savedmodel"
      [] format = "TF_TRT" -> "tf-trt"
      [] format = "TENSORRT" -> "trt"
      [] OTHER -> "other"

(***************************************************************************)
(* utils.format_to_relative_model_path                                     *)
(*                                                                         *)
(* A returned Path is [ok |-> TRUE, dir, name]: the two components of      *)
(* Path(path_str) / "model.<ext>".  A raised exception is PathError.       *)
(***************************************************************************)
PathError == [ok |-> FALSE, dir |-> "", name |-> ""]
RelPath(dir, name) == [ok |-> TRUE, dir |-> dir, name |-> name]

\* Path.as_posix() of a returned path
as_posix(p) == p.dir \o "/" \o p.name

\* Faulty variant of path_str: appends the compile flags in the opposite order.
path_str_flags_swapped(format, jit_type, precision, enable_xla, jit_compile) ==
    LET s0 == FormatValue(format)
        s1 == IF Truthy(jit_type) THEN s0 \o "-" \o jit_type ELSE s0
        s2 == IF jit_compile = PyTrue THEN s1 \o "-jit" ELSE s1
        s3 == IF enable_xla = PyTrue THEN s2 \o "-xla" ELSE s2
        s4 == IF Truthy(precision) THEN s3 \o "-" \o precision ELSE s3
    IN  s4

\* lines 172-180: the directory name
path_str(format, jit_type, precision, enable_xla, jit_compile) ==
    LET s0 == FormatValue(format)
        s1 == IF Truthy(jit_type) THEN s0 \o "-" \o jit_type ELSE s0
        s2 == IF enable_xla = PyTrue THEN s1 \o "-xla" ELSE s1
        s3 == IF jit_compile = PyTrue THEN s2 \o "-jit" ELSE s2
        s4 == IF Truthy(precision) THEN s3 \o "-" \o precision ELSE s3
    IN  s4

\* Faulty variant of the resolver: TorchScript without a jit type gets a
\* path instead of the exception.
format_to_relative_model_path_lenient(format, jit_type, precision, enable_xla, jit_compile) ==
    IF format = None THEN PathError
    ELSE LET path == path_str(format, jit_type, precision, enable_xla, jit_compile)
         IN  CASE format = "ONNX" -> RelPath(path, "model.onnx")
               [] format = "TORCHSCRIPT" -> RelPath(path, "model.pt")
               [] format = "TORCH_TRT" /\ Truthy(jit_type) /\ Truthy(precision)
                     -> RelPath(path, "model.pt")
               [] format = "TF_SAVEDMODEL" -> RelPath(path, "model.savedmodel")
               [] format = "TF_TRT" /\ Truthy(precision) -> RelPath(path, "model.savedmodel")
               [] format = "TENSORRT" /\ Truthy(precision) -> RelPath(path, "model.plan")
               [] OTHER -> PathError

\* lines 165-199.  format = None fails on format.value (line 172).
format_to_relative_model_path(format, jit_type, precision, enable_xla, jit_compile) ==
    IF format = None THEN PathError
    ELSE LET path == path_str(format, jit_type, precision, enable_xla, jit_compile)
         IN  CASE format = "ONNX" -> RelPath(path, "model.onnx")
               [] format = "TORCHSCRIPT" /\ Truthy(jit_type) -> RelPath(path, "model.pt")
               [] format = "TORCH_TRT" /\ Truthy(jit_type) /\ Truthy(precision)
                     -> RelPath(path, "model.pt")
               [] format = "TF_SAVEDMODEL" -> RelPath(path, "model.savedmodel")
               [] format = "TF_TRT" /\ Truthy(precision) -> RelPath(path, "model.savedmodel")
               [] format = "TENSORRT" /\ Truthy(precision) -> RelPath(path, "model.plan")
               [] OTHER -> PathError

(***************************************************************************)
(* commands/convert/tf.py: ConvertSavedModel2ONNX, ConvertSavedModel2TFTRT  *)
(*                                                                         *)
(* A command object is [cls, target_format, target_precision, enable_xla,  *)
(* jit_compile].  A call's outcome is [status, returned, raised, workdir,  *)
(* tool_runs]: self.status after the call, the value returned (None when   *)
(* it returned nothing or raised), whether it raised, the working          *)
(* directory it leaves and the number of external conversions it started.  *)
(* tool_ok is whether the external conversion, if started, succeeds; a     *)
(* failing one raises out of the ExecutionContext.                         *)
(***************************************************************************)
ConvertSavedModel2ONNX(enable_xla, jit_compile) ==
    [cls |-> "ConvertSavedModel2ONNX", target_format |-> "ONNX", target_precision |-> None,
     enable_xla |-> enable_xla, jit_compile |-> jit_compile]

ConvertSavedModel2TFTRT(target_precision, enable_xla, jit_compile) ==
    [cls |-> "ConvertSavedModel2TFTRT", target_format |-> "TF_TRT",
     target_precision |-> target_precision,
     enable_xla |-> enable_xla, jit_compile |-> jit_compile]

\* Command.get_output_relative_path: the resolver applied to the command's
\* own format and variant attributes
get_output_relative_path(self) ==
    format_to_relative_model_path(self.target_format, None, self.target_precision,
                                  self.enable_xla, self.jit_compile)

\* tf.py lines 53-57 and 125-129
exported_model_path(self) ==
    format_to_relative_model_path("TF_SAVEDMODEL", None, None, self.enable_xla, self.jit_compile)

Outcome(st, ret, failed, wd, runs) ==
    [status |-> st, returned |-> ret, raised |-> failed, workdir |-> wd, tool_runs |-> runs]

\* tf.py lines 69-88 and 141-161: the external conversion and the return
ExecuteConversion(self, st, wd, tool_ok) ==
    IF tool_ok
    THEN Outcome(st, as_posix(get_output_relative_path(self)), FALSE,
                 wd \cup {as_posix(get_output_relative_path(self))}, 1)
    ELSE Outcome(st, None, TRUE, wd, 1)

\* Faulty variant of the body: marks itself SKIPPED on a missing input but
\* does not return, so the conversion starts and fails on the missing input.
ConvertSavedModel2ONNX_call_no_return(self, st, wd, tool_ok) ==
    IF as_posix(get_output_relative_path(self)) \in wd
    THEN Outcome(st, as_posix(get_output_relative_path(self)), FALSE, wd, 0)
    ELSE IF as_posix(exported_model_path(self)) \notin wd
         THEN ExecuteConversion(self, SKIPPED, wd, FALSE)
         ELSE ExecuteConversion(self, st, wd, tool_ok)

\* ConvertSavedModel2ONNX.__call__, tf.py lines 44-88
ConvertSavedModel2ONNX_call(self, st, wd, tool_ok) ==
    IF as_posix(get_output_relative_path(self)) \in wd
    THEN Outcome(st, as_posix(get_output_relative_path(self)), FALSE, wd, 0)
    ELSE IF as_posix(exported_model_path(self)) \notin wd
         THEN Outcome(SKIPPED, None, FALSE, wd, 0)
         ELSE ExecuteConversion(self, st, wd, tool_ok)

\* ConvertSavedModel2TFTRT.__call__, tf.py lines 111-161.  Line 131 makes
\* the output's directory before anything is looked up.
ConvertSavedModel2TFTRT_call(self, st, wd, gpu, tool_ok) ==
    IF ~gpu THEN Outcome(st, None, TRUE, wd, 0)
    ELSE LET made == wd \cup {get_output_relative_path(self).dir}
         IN  IF as_posix(get_output_relative_path(self)) \in made
             THEN Outcome(st, as_posix(get_output_relative_path(self)), FALSE, made, 0)
             ELSE IF as_posix(exported_model_path(self)) \notin made
                  THEN Outcome(SKIPPED, None, FALSE, made, 0)
                  ELSE ExecuteConversion(self, st, made, tool_ok)

\* The command's __call__ by class
Call(self, st, wd, gpu, tool_ok) ==
    IF self.cls = "ConvertSavedModel2ONNX"
    THEN ConvertSavedModel2ONNX_call(self, st, wd, tool_ok)
    ELSE ConvertSavedModel2TFTRT_call(self, st, wd, gpu, tool_ok)

\* Command.transform after __call__ is over: an exception is recorded as
\* FAIL, a normal return as OK unless the body set a status itself.
transform(st, failed) ==
    IF failed THEN FAIL
    ELSE IF st = INITIALIZED THEN OK ELSE st

(***************************************************************************)
(* pipeline_manager_pyt.TorchPipelineManager._get_pipeline                 *)
(*                                                                         *)
(* A Command instance is its position in the command list; `requires` is   *)
(* the tuple of the positions of the instances it was constructed with.    *)
(***************************************************************************)
MaxJitTypes == 2        \* longest config.target_jit_type explored
MaxPrecisions == 2      \* longest config.target_precisions explored

\* Faulty variant of the provider list: the TensorRT provider is left out.
ProvidersCudaCpu == <<"CUDA", "CPU">>

\* utils.RuntimeProvider members the builder names, lines 70 and 97
OnnxProviders == <<"CUDA", "TRT", "CPU">>

\* commands.core.CommandType of each command class
CommandTypeOf(cls) ==
    CASE cls \in {"InferInputMetadata", "InferOutputMetadata"} -> "INFER_METADATA"
      [] cls \in {"FetchInputModelData"} -> "FETCH_INPUT_MODEL_DATA"
      [] cls \in {"DumpInputModelData", "DumpOutputModelData"} -> "DUMP_MODEL_DATA"
      [] cls \in {"ExportPYT2TorchScript", "ExportPYT2ONNX", "ExportPYT2TorchTensorRT"}
            -> "EXPORT"
      [] cls \in {"ConvertONNX2TRT"} -> "CONVERT"
      [] cls \in {"CorrectnessPYT2TorchScript", "CorrectnessPYT2ONNX", "CorrectnessPYT2TRT"}
            -> "CORRECTNESS"
      [] cls \in {"PerformanceTorchScript", "PerformanceONNX", "PerformanceTRT"}
            -> "PERFORMANCE"
      [] cls \in {"ConfigCli"} -> "CONFIG_GEN"

\* A constructed Command: its class, the keyword arguments it was given
\* (None for those it was not given) and its requires.
Command(cls, target_format, target_jit_type, target_precision, runtime_provider, reqs) ==
    [cls |-> cls, command_type |-> CommandTypeOf(cls), target_format |-> target_format,
     target_jit_type |-> target_jit_type, target_precision |-> target_precision,
     runtime_provider |-> runtime_provider, requires |-> reqs]

\* lines 44-47: infer_input, fetch_input, infer_output
infer_input == 1
fetch_input == 2
infer_output == 3
MetadataCommands ==
    << Command("InferInputMetadata", None, None, None, None, <<>>),
       Command("FetchInputModelData", None, None, None, None, <<infer_input>>),
       Command("InferOutputMetadata", None, None, None, None, <<infer_input, fetch_input>>) >>

\* The builder's locals between branches: the list and the onnx_export
\* instance (0 while the name is unbound).
Locals(commands, onnx_export) == [commands |-> commands, onnx_export |-> onnx_export]

\* Faulty variant of lines 49-66: an iteration appends its checks before
\* the export they require.
RECURSIVE TorchScriptLoopExportLast(_, _, _)
TorchScriptLoopExportLast(commands, jit_types, i) ==
    IF i > Len(jit_types) THEN commands
    ELSE LET export == Len(commands) + 4
             jt == jit_types[i]
         IN  TorchScriptLoopExportLast(
                 commands \o
                 << Command("CorrectnessPYT2TorchScript", "TORCHSCRIPT", jt, None, None, <<export>>),
                    Command("PerformanceTorchScript", "TORCHSCRIPT", jt, None, None, <<export>>),
                    Command("ConfigCli", "TORCHSCRIPT", jt, None, None, <<export>>),
                    Command("ExportPYT2TorchScript", None, jt, None, None,
                            <<infer_input, fetch_input, infer_output>>) >>,
                 jit_types, i + 1)

\* lines 49-66: one iteration per target_jit_type
RECURSIVE TorchScriptLoop(_, _, _)
TorchScriptLoop(commands, jit_types, i) ==
    IF i > Len(jit_types) THEN commands
    ELSE LET export == Len(commands) + 1
             jt == jit_types[i]
         IN  TorchScriptLoop(
                 commands \o
                 << Command("ExportPYT2TorchScript", None, jt, None, None,
                            <<infer_input, fetch_input, infer_output>>),
                    Command("CorrectnessPYT2TorchScript", "TORCHSCRIPT", jt, None, None, <<export>>),
                    Command("PerformanceTorchScript", "TORCHSCRIPT", jt, None, None, <<export>>),
                    Command("ConfigCli", "TORCHSCRIPT", jt, None, None, <<export>>) >>,
                 jit_types, i + 1)

\* lines 48-66
TorchScriptBranch(l, cfg) ==
    IF "TORCHSCRIPT" \in cfg.target_formats
    THEN Locals(TorchScriptLoop(l.commands, cfg.target_jit_type, 1), l.onnx_export)
    ELSE l

\* lines 70-72 and 97-99: a correctness and a performance command per provider
RECURSIVE OnnxProviderLoop(_, _, _, _)
OnnxProviderLoop(commands, onnx_export, providers, i) ==
    IF i > Len(providers) THEN commands
    ELSE OnnxProviderLoop(
             commands \o
             << Command("CorrectnessPYT2ONNX", None, None, None, providers[i], <<onnx_export>>),
                Command("PerformanceONNX", None, None, None, providers[i], <<onnx_export>>) >>,
             onnx_export, providers, i + 1)

\* lines 68-72 and 95-99: the ONNX export with its checks
OnnxExport(commands) ==
    LET onnx_export == Len(commands) + 1
    IN  Locals(OnnxProviderLoop(
                   Append(commands, Command("ExportPYT2ONNX", None, None, None, None,
                                            <<infer_input, fetch_input, infer_output>>)),
                   onnx_export, OnnxProviders, 1),
               onnx_export)

\* lines 67-73
OnnxBranch(l, cfg) ==
    IF "ONNX" \in cfg.target_formats
    THEN LET e == OnnxExport(l.commands)
         IN  Locals(Append(e.commands,
                           Command("ConfigCli", "ONNX", None, None, None, <<e.onnx_export>>)),
                    e.onnx_export)
    ELSE l

\* lines 75-92: one iteration per target_jit_type
RECURSIVE TorchTrtLoop(_, _, _)
TorchTrtLoop(commands, jit_types, i) ==
    IF i > Len(jit_types) THEN commands
    ELSE LET export == Len(commands) + 1
             jt == jit_types[i]
         IN  TorchTrtLoop(
                 commands \o
                 << Command("ExportPYT2TorchTensorRT", None, jt, None, None,
                            <<infer_input, fetch_input, infer_output>>),
                    Command("CorrectnessPYT2TorchScript", "TORCH_TRT", jt, None, None, <<export>>),
                    Command("PerformanceTorchScript", "TORCH_TRT", jt, None, None, <<export>>),
                    Command("ConfigCli", "TORCH_TRT", jt, None, None, <<export>>) >>,
                 jit_types, i + 1)

\* lines 74-92
TorchTrtBranch(l, cfg) ==
    IF "TORCH_TRT" \in cfg.target_formats
    THEN Locals(TorchTrtLoop(l.commands, cfg.target_jit_type, 1), l.onnx_export)
    ELSE l

\* Faulty variant of lines 100-107: the checks of a TensorRT plan require
\* the ONNX export the plan is converted from instead of the conversion.
RECURSIVE TensorRTLoopChecksOnExport(_, _, _, _)
TensorRTLoopChecksOnExport(commands, onnx_export, precisions, i) ==
    IF i > Len(precisions) THEN commands
    ELSE LET tp == precisions[i]
         IN  TensorRTLoopChecksOnExport(
                 commands \o
                 << Command("ConvertONNX2TRT", None, None, tp, None, <<onnx_export>>),
                    Command("CorrectnessPYT2TRT", None, None, tp, None, <<onnx_export>>),
                    Command("PerformanceTRT", None, None, tp, None, <<onnx_export>>),
                    Command("ConfigCli", "TENSORRT", None, tp, None, <<onnx_export>>) >>,
                 onnx_export, precisions, i + 1)

\* lines 100-107: one iteration per target_precision
RECURSIVE TensorRTLoop(_, _, _, _)
TensorRTLoop(commands, onnx_export, precisions, i) ==
    IF i > Len(precisions) THEN commands
    ELSE LET convert == Len(commands) + 1
             tp == precisions[i]
         IN  TensorRTLoop(
                 commands \o
                 << Command("ConvertONNX2TRT", None, None, tp, None, <<onnx_export>>),
                    Command("CorrectnessPYT2TRT", None, None, tp, None, <<convert>>),
                    Command("PerformanceTRT", None, None, tp, None, <<convert>>),
                    Command("ConfigCli", "TENSORRT", None, tp, None, <<convert>>) >>,
                 onnx_export, precisions, i + 1)

\* Faulty variant of lines 94-99: adds an ONNX export for TensorRT without
\* looking for the one the ONNX branch made.
TensorRTIntermediateAlwaysNew(l, cfg) == OnnxExport(l.commands)

\* lines 94-99: the ONNX export TensorRT converts from
TensorRTIntermediate(l, cfg) ==
    IF "ONNX" \notin cfg.target_formats THEN OnnxExport(l.commands) ELSE l

\* lines 93-107
TensorRTBranch(l, cfg) ==
    IF "TENSORRT" \in cfg.target_formats
    THEN LET e == TensorRTIntermediate(l, cfg)
         IN  Locals(TensorRTLoop(e.commands, e.onnx_export, cfg.target_precisions, 1),
                    e.onnx_export)
    ELSE l

\* lines 109-111
DataDumpBranch(l, cfg) ==
    IF cfg.save_data
    THEN Locals(l.commands \o
                << Command("DumpInputModelData", None, None, None, None,
                           <<infer_input, fetch_input>>),
                   Command("DumpOutputModelData", None, None, None, None,
                           <<fetch_input, infer_output>>) >>,
                l.onnx_export)
    ELSE l

\* lines 43-112: the command list of the returned Pipeline
_get_pipeline(cfg) ==
    DataDumpBranch(
        TensorRTBranch(
            TorchTrtBranch(
                OnnxBranch(
                    TorchScriptBranch(Locals(MetadataCommands, 0), cfg),
                    cfg),
                cfg),
            cfg),
        cfg).commands

(***************************************************************************)
(* The executor: Pipeline.execute and Command.transform                    *)
(*                                                                         *)
(* Commands are 1..n in insertion order.  The executor visits, one at a    *)
(* time, the first Command in insertion order that it has not visited and  *)
(* whose requires have all been visited.  A Command with a requirement     *)
(* that is not OK is marked SKIPPED without being invoked; otherwise its   *)
(* body is invoked and transform records the result.  A body succeeds,     *)
(* raises, or marks itself SKIPPED and returns (as tf.py lines 64-67 do).  *)
(***************************************************************************)
MaxCommands == 3        \* largest pipeline the executor is run on

BodyOutcomes == {"ok", "raise", "skip"}
Terminal == {OK, FAIL, SKIPPED, NOOP}

\* The Commands c requires through at most k requires edges.
RECURSIVE RequiredWithin(_, _, _)
RequiredWithin(req, c, k) ==
    IF k = 0 THEN {}
    ELSE req[c] \cup UNION {RequiredWithin(req, r, k - 1) : r \in req[c]}

TransitiveRequires(req, c) == RequiredWithin(req, c, Cardinality(DOMAIN req))

Acyclic(req) == \A c \in DOMAIN req : c \notin TransitiveRequires(req, c)

Min(S) == CHOOSE x \in S : \A y \in S : x <= y

\* Faulty variant of NextCommand: walks the list in insertion order and
\* stops at a Command listed before one of its requirements.
NextCommandInListOrder(req, visited) ==
    LET left == DOMAIN req \ visited
    IN  IF left # {} /\ req[Min(left)] \subseteq visited THEN Min(left) ELSE 0

\* The Command to visit next (0: none is left).
NextCommand(req, visited) ==
    LET ready == {c \in DOMAIN req \ visited : req[c] \subseteq visited}
    IN  IF ready = {} THEN 0 ELSE Min(ready)

\* Faulty variant of RequiresOK: only a failed requirement counts.
RequiresFailFree(req, st, c) == \A r \in req[c] : st[r] # FAIL

\* Faulty variant of RequiresOK: one satisfied requirement is enough.
RequiresSomeOK(req, st, c) == req[c] = {} \/ \E r \in req[c] : st[r] = OK

\* Whether every Command in c's requires is OK.
RequiresOK(req, st, c) == \A r \in req[c] : st[r] = OK

\* A Command body: [status, raised] after it ran.
Body(what, st) ==
    CASE what = "ok" -> [status |-> st, raised |-> FALSE]
      [] what = "raise" -> [status |-> st, raised |-> TRUE]
      [] what = "skip" -> [status |-> SKIPPED, raised |-> FALSE]

\* The status one visit leaves on Command c.
Visit(req, st, c, what) ==
    IF RequiresOK(req, st, c)
    THEN LET b == Body(what, st[c]) IN transform(b.status, b.raised)
    ELSE SKIPPED

\* The statuses a whole run leaves, from statuses st with `visited` done.
RECURSIVE Walk(_, _, _, _)
Walk(req, out, st, visited) ==
    LET c == NextCommand(req, visited)
    IN  IF c = 0 THEN st
        ELSE Walk(req, out, [st EXCEPT ![c] = Visit(req, st, c, out[c])], visited \cup {c})

Execute(req, out) == Walk(req, out, [c \in DOMAIN req |-> INITIALIZED], {})

(***************************************************************************)
(* Samples: sample_to_tuple, to_numpy, extract_sample                      *)
(*                                                                         *)
(* An object is [type, data]: a tensor of a library with its contents, or  *)
(* an iterable that is no tensor.  A sample is [shape, items]: a single    *)
(* tensor, a sequence (list, tuple) of tensors, a mapping from names to    *)
(* tensors, or an iterable that is neither (generator, iterator, set, dict *)
(* view); items lists [key, value] in order (for a mapping the order its   *)
(* keys were inserted in, key None otherwise).  A dict is the sequence of  *)
(* its [key, value] entries in insertion order.  A call yields [raised,    *)
(* value].                                                                 *)
(***************************************************************************)
Framework == {"TF2", "PYT", "ONNX", "JAX"}

Tensor(type, data) == [type |-> type, data |-> data]

\* What sample_to_tuple wraps at line 211 when the sample is an iterable
\* that is no Sequence and no Mapping: the object itself, not its elements.
IterableObject == [type |-> "iterable", data |-> 0]

\* The AttributeError of a call to .detach() or .numpy() on an object
\* without that method.
AttributeError == [type |-> "AttributeError", data |-> 0]

\* utils.py lines 256-266
is_tensor(tensor, fw) ==
    IF fw = "PYT" THEN tensor.type \in {"torch", "numpy"}
    ELSE IF fw = "TF2" THEN tensor.type \in {"tensorflow", "numpy"}
    ELSE tensor.type = "numpy"

\* utils.py lines 154-160: an ndarray is returned as it is; for PYT the
\* object's detach().cpu().numpy() is taken, else its numpy(), which an
\* object without the method answers with AttributeError
to_numpy(tensor, from_framework) ==
    IF tensor.type = "numpy" THEN tensor
    ELSE IF from_framework = "PYT"
         THEN IF tensor.type = "torch"
              THEN Tensor("numpy", tensor.data) ELSE AttributeError
         ELSE IF tensor.type \in {"torch", "tensorflow"}
              THEN Tensor("numpy", tensor.data) ELSE AttributeError

Values(items) == [i \in DOMAIN items |-> items[i].value]

\* utils.py lines 206-211
sample_to_tuple(input) ==
    IF input.shape = "Sequence" THEN Values(input.items)
    ELSE IF input.shape = "Mapping" THEN Values(input.items)
    ELSE IF input.shape = "Tensor" THEN <<input.items[1].value>>
    ELSE <<IterableObject>>

\* Python's zip: pairs up to the end of the shorter argument
zip(a, b) ==
    [i \in 1..(IF Len(a) < Len(b) THEN Len(a) ELSE Len(b)) |-> <<a[i], b[i]>>]

Keys(d) == {d[i].key : i \in DOMAIN d}
Get(d, k) == d[CHOOSE i \in DOMAIN d : d[i].key = k].value

\* d[k] = v on a dict: a key already there keeps its place
SetItem(d, k, v) ==
    IF k \in Keys(d)
    THEN [i \in DOMAIN d |-> IF d[i].key = k THEN [key |-> k, value |-> v] ELSE d[i]]
    ELSE Append(d, [key |-> k, value |-> v])

\* utils.py line 216: {n: to_numpy(t, framework) for n, t in pairs}
RECURSIVE DictOf(_, _, _, _)
DictOf(pairs, fw, i, d) ==
    IF i > Len(pairs) THEN d
    ELSE DictOf(pairs, fw, i + 1, SetItem(d, pairs[i][1], to_numpy(pairs[i][2], fw)))

Returned(d) == [raised |-> FALSE, value |-> d]
Raised == [raised |-> TRUE, value |-> <<>>]

\* utils.py lines 214-217: the dict, unless a to_numpy of line 216 raised
extract_sample(smp, metadata, fw) ==
    LET pairs == zip(metadata, sample_to_tuple(smp))
    IN  IF \E i \in DOMAIN pairs : to_numpy(pairs[i][2], fw) = AttributeError
        THEN Raised
        ELSE Returned(DictOf(pairs, fw, 1, <<>>))

(***************************************************************************)
(* Inputs and idle values                                                  *)
(***************************************************************************)
MaxRuns == 2            \* runs of the pipeline against one working directory

SeqsUpTo(S, n) == UNION {[1..k -> S] : k \in 0..n}

FormatArgs == Format \cup {OTHER_FORMAT, None}
JitTypeArgs == JitType \cup {None}
PrecisionArgs == TensorRTPrecision \cup {None}

PathArgs ==
    [format : FormatArgs, jit_type : JitTypeArgs, precision : PrecisionArgs,
     enable_xla : OptBool, jit_compile : OptBool]

Configs ==
    [target_formats : SUBSET Format,
     target_jit_type : SeqsUpTo(JitType, MaxJitTypes),
     target_precisions : SeqsUpTo(TensorRTPrecision, MaxPrecisions),
     save_data : BOOLEAN]

ConvertCommands ==
    {ConvertSavedModel2ONNX(x, j) : x \in OptBool, j \in OptBool}
    \cup {ConvertSavedModel2TFTRT(tp[1], tp[2], j) :
              tp \in TensorRTPrecision \X OptBool, j \in OptBool}

NotCalled == [ok |-> FALSE, dir |-> "", name |-> "not called"]

NoArgs ==
    [format |-> None, jit_type |-> None, precision |-> None,
     enable_xla |-> None, jit_compile |-> None]

NoConfig ==
    [target_formats |-> {}, target_jit_type |-> <<>>, target_precisions |-> <<>>,
     save_data |-> FALSE]

Graphs ==
    UNION {{req \in [1..n -> SUBSET (1..n)] : Acyclic(req)} : n \in 1..MaxCommands}

MaxInputs == 2          \* most inputs of a model, and most entries of a sample
MaxTensors == 2         \* distinct tensor contents

InputNames == {"x", "y", "z"}

Injective(q) == \A i, j \in DOMAIN q : i # j => q[i] # q[j]

\* Key orders of a dict: sequences without a repeated name
NameLists == {q \in SeqsUpTo(InputNames, MaxInputs) : Len(q) >= 1 /\ Injective(q)}

TensorsOf(fw) ==
    {t \in [type : {"torch", "tensorflow", "numpy"}, data : 1..MaxTensors] : is_tensor(t, fw)}

TensorLists(fw) == SeqsUpTo(TensorsOf(fw), MaxInputs)

\* Key orders of a Mapping sample, the empty one included
KeyLists == {q \in SeqsUpTo(InputNames, MaxInputs) : Injective(q)}

Items(keys, values) == [i \in DOMAIN values |-> [key |-> keys[i], value |-> values[i]]]

\* The samples validate_sample_input accepts (utils.py lines 279-301): a
\* tensor, a Mapping whose values are tensors, and any Iterable of tensors,
\* which is a Sequence or not; each container may be empty.
SamplesOf(fw) ==
    {[shape |-> "Tensor", items |-> Items(<<None>>, <<t>>)] : t \in TensorsOf(fw)}
    \cup {[shape |-> sh, items |-> Items([i \in DOMAIN q |-> None], q)] :
              sh \in {"Sequence", "Iterable"}, q \in TensorLists(fw)}
    \cup UNION {{[shape |-> "Mapping", items |-> Items(k, q)] :
                    q \in {v \in TensorLists(fw) : Len(v) = Len(k)}} : k \in KeyLists}

NoSample == [shape |-> "Tensor", items |-> <<>>]

\* Each specification leaves the variables of the others at these values.
ExecIdle ==
    /\ requires = <<>> /\ outcome = <<>> /\ status = <<>> /\ invoked = <<>>
    /\ visits = <<>> /\ report = <<>> /\ exc = FALSE /\ current = 0 /\ pc = "idle"
PathIdle == args = NoArgs /\ result = PathError
PipeIdle == config = NoConfig /\ pipeline = <<>>
SampleIdle ==
    /\ sample = NoSample /\ input_metadata = <<>> /\ framework = "ONNX"
    /\ extracted = Returned(<<>>) /\ spc = "idle"
ConvIdle ==
    /\ cmd = ConvertSavedModel2ONNX(None, None)
    /\ workdir = {} /\ gpus = FALSE /\ cstatus = INITIALIZED /\ returned = None
    /\ raised = FALSE /\ tool_runs = 0 /\ before = {} /\ cpc = "idle" /\ run = 0

(***************************************************************************)
(* SpecPath: the resolver applied to every argument combination            *)
(***************************************************************************)
Called == result # NotCalled

PathInit ==
    /\ args \in PathArgs /\ result = NotCalled
    /\ PipeIdle /\ ConvIdle /\ ExecIdle /\ SampleIdle

Resolve ==
    /\ result = NotCalled
    /\ result' = format_to_relative_model_path(args.format, args.jit_type, args.precision,
                                               args.enable_xla, args.jit_compile)
    /\ UNCHANGED <<args, pipeVars, convVars, execVars, sampleVars>>

SpecPath == PathInit /\ [][Resolve]_vars

(***************************************************************************)
(* SpecPipeline: the builder applied to every configuration                *)
(***************************************************************************)
Built == pipeline # <<>>

PipeInit ==
    /\ config \in Configs /\ pipeline = <<>>
    /\ PathIdle /\ ConvIdle /\ ExecIdle /\ SampleIdle

GetPipeline ==
    /\ pipeline = <<>>
    /\ pipeline' = _get_pipeline(config)
    /\ UNCHANGED <<config, pathVars, convVars, execVars, sampleVars>>

SpecPipeline == PipeInit /\ [][GetPipeline]_vars

(***************************************************************************)
(* SpecConvert: one conversion command run by the executor against a       *)
(* working directory, then run again by a later run of the pipeline.       *)
(* The working directory starts with any of the command's input and        *)
(* output artifacts present.                                               *)
(***************************************************************************)
ConvInit ==
    /\ cmd \in ConvertCommands
    /\ workdir \in SUBSET {as_posix(exported_model_path(cmd)),
                           as_posix(get_output_relative_path(cmd))}
    /\ gpus \in BOOLEAN
    /\ cstatus = INITIALIZED /\ returned = None /\ raised = FALSE /\ tool_runs = 0
    /\ before = workdir /\ cpc = "ready" /\ run = 1
    /\ PathIdle /\ PipeIdle /\ ExecIdle /\ SampleIdle

\* The executor invokes the command: __call__ runs to its return or raise.
Invoke ==
    /\ cpc = "ready"
    /\ \E tool_ok \in BOOLEAN :
          LET o == Call(cmd, cstatus, workdir, gpus, tool_ok)
          IN  /\ cstatus' = o.status
              /\ returned' = o.returned
              /\ raised' = o.raised
              /\ workdir' = o.workdir
              /\ tool_runs' = o.tool_runs
    /\ before' = workdir
    /\ cpc' = "returned"
    /\ UNCHANGED <<cmd, gpus, run, pathVars, pipeVars, execVars, sampleVars>>

\* The executor records the command's terminal status.
RecordStatus ==
    /\ cpc = "returned"
    /\ cstatus' = transform(cstatus, raised)
    /\ cpc' = "done"
    /\ UNCHANGED <<cmd, workdir, gpus, returned, raised, tool_runs, before, run,
                   pathVars, pipeVars, execVars, sampleVars>>

\* The pipeline is run again on the same machine and working directory,
\* with a fresh Command object.
Rerun ==
    /\ cpc = "done"
    /\ run < MaxRuns
    /\ run' = run + 1
    /\ cstatus' = INITIALIZED /\ returned' = None /\ raised' = FALSE /\ tool_runs' = 0
    /\ before' = workdir
    /\ cpc' = "ready"
    /\ UNCHANGED <<cmd, workdir, gpus, pathVars, pipeVars, execVars, sampleVars>>

ConvNext == Invoke \/ RecordStatus \/ Rerun

SpecConvert == ConvInit /\ [][ConvNext]_vars

(***************************************************************************)
(* Spec: one run of the executor over an acyclic pipeline                  *)
(***************************************************************************)
Commands == DOMAIN requires
Visited == {c \in Commands : visits[c] > 0}

Init ==
    /\ requires \in Graphs
    /\ outcome \in [DOMAIN requires -> BodyOutcomes]
    /\ status = [c \in DOMAIN requires |-> INITIALIZED]
    /\ invoked = [c \in DOMAIN requires |-> 0]
    /\ visits = [c \in DOMAIN requires |-> 0]
    /\ report = <<>>
    /\ exc = FALSE /\ current = 0 /\ pc = "walk"
    /\ PathIdle /\ PipeIdle /\ ConvIdle /\ SampleIdle

\* A Command with a requirement that is not OK is marked SKIPPED.
SkipCommand ==
    /\ pc = "walk"
    /\ LET c == NextCommand(requires, Visited)
       IN  /\ c # 0
           /\ ~RequiresOK(requires, status, c)
           /\ status' = [status EXCEPT ![c] = SKIPPED]
           /\ visits' = [visits EXCEPT ![c] = @ + 1]
           /\ report' = [d \in DOMAIN report \cup {c} |->
                            IF d = c THEN SKIPPED ELSE report[d]]
    /\ UNCHANGED <<requires, outcome, invoked, exc, current, pc, pathVars, pipeVars, convVars, sampleVars>>

\* A Command whose requires are all OK is invoked: its body runs.
InvokeCommand ==
    /\ pc = "walk"
    /\ LET c == NextCommand(requires, Visited)
       IN  /\ c # 0
           /\ RequiresOK(requires, status, c)
           /\ LET b == Body(outcome[c], status[c])
              IN  /\ status' = [status EXCEPT ![c] = b.status]
                  /\ exc' = b.raised
           /\ invoked' = [invoked EXCEPT ![c] = @ + 1]
           /\ visits' = [visits EXCEPT ![c] = @ + 1]
           /\ current' = c
    /\ pc' = "body"
    /\ UNCHANGED <<requires, outcome, report, pathVars, pipeVars, convVars, sampleVars>>

\* transform records the status of the Command whose body just ran.
RecordCommand ==
    /\ pc = "body"
    /\ status' = [status EXCEPT ![current] = transform(@, exc)]
    /\ report' = [d \in DOMAIN report \cup {current} |->
                     IF d = current THEN transform(status[current], exc) ELSE report[d]]
    /\ exc' = FALSE
    /\ current' = 0
    /\ pc' = "walk"
    /\ UNCHANGED <<requires, outcome, invoked, visits, pathVars, pipeVars, convVars, sampleVars>>

\* No Command is left to visit: the run is over and the report is written.
Finish ==
    /\ pc = "walk"
    /\ NextCommand(requires, Visited) = 0
    /\ pc' = "done"
    /\ UNCHANGED <<requires, outcome, status, invoked, visits, report, exc, current,
                   pathVars, pipeVars, convVars, sampleVars>>

Next == SkipCommand \/ InvokeCommand \/ RecordCommand \/ Finish

Spec == Init /\ [][Next]_vars

\* The executor is one sequential loop: it keeps taking its next step.
FairSpec == Spec /\ WF_vars(Next)

(***************************************************************************)
(* The executor's contract                                                 *)
(***************************************************************************)
\* The Commands that require x directly or transitively.
Dependents(x) == {c \in Commands : x \in TransitiveRequires(requires, c)}

\* C1: a finished run leaves every Command with a terminal status (never
\* INITIALIZED) and one report entry; a Command with a requirement that is
\* not OK ends SKIPPED with its body never invoked; and a body is invoked
\* only while every Command in its requires is OK.
C1_RequiresGateInvocation ==
    /\ [](pc = "done" =>
            /\ DOMAIN report = Commands
            /\ \A c \in Commands :
                  /\ status[c] \in Terminal
                  /\ (\E r \in requires[c] : status[r] # OK) =>
                         (status[c] = SKIPPED /\ invoked[c] = 0))
    /\ [][\A c \in Commands :
             invoked'[c] > invoked[c] => \A r \in requires[c] : status[r] = OK]_vars

\* A finished run in which one Command ran on an OK requirement and another
\* was skipped, uninvoked, behind a requirement that is not OK.
C1_Witness ==
    /\ pc = "done"
    /\ \E c \in Commands :
          /\ requires[c] # {}
          /\ \A r \in requires[c] : status[r] = OK
          /\ invoked[c] = 1
    /\ \E c \in Commands :
          /\ \E r \in requires[c] : status[r] \in {FAIL, SKIPPED}
          /\ status[c] = SKIPPED /\ invoked[c] = 0

\* C2: when the body of Command x raised (x ended FAIL), the finished run
\* has every direct or transitive dependent of x SKIPPED, and every other
\* Command but x holds the status it holds in the run of the same pipeline
\* in which x succeeds.
C2_Cascade ==
    pc = "done" =>
        \A x \in Commands :
            (outcome[x] = "raise" /\ status[x] = FAIL) =>
                /\ \A d \in Dependents(x) : status[d] = SKIPPED
                /\ \A c \in Commands \ (Dependents(x) \cup {x}) :
                       status[c] = Execute(requires, [outcome EXCEPT ![x] = "ok"])[c]

\* A finished three-Command run: the first failed, its dependent was
\* skipped, and the independent third ended OK.
C2_Witness ==
    /\ pc = "done"
    /\ Cardinality(Commands) = 3
    /\ \E x \in Commands :
          /\ outcome[x] = "raise" /\ status[x] = FAIL
          /\ \E d \in Dependents(x) : status[d] = SKIPPED /\ outcome[d] = "ok"
          /\ \E c \in Commands \ (Dependents(x) \cup {x}) : status[c] = OK

\* C6: every run finishes; no body is ever invoked twice; and the finished
\* run has visited every Command exactly once and reports a terminal
\* status for each.
C6_TerminatesHavingVisitedAll ==
    /\ <>(pc = "done")
    /\ [](\A c \in Commands : invoked[c] <= 1 /\ visits[c] <= 1)
    /\ [](pc = "done" =>
            /\ \A c \in Commands : visits[c] = 1
            /\ DOMAIN report = Commands
            /\ \A c \in Commands : report[c] \in Terminal /\ report[c] = status[c])

\* A finished run of three Commands in which every invoked body raised.
C6_Witness ==
    /\ pc = "done"
    /\ Cardinality(Commands) = 3
    /\ \A c \in Commands : outcome[c] = "raise" /\ visits[c] = 1
    /\ \A c \in Commands : status[c] \in {FAIL, SKIPPED}
    /\ \E c \in Commands : status[c] = SKIPPED

(***************************************************************************)
(* The resolver's contract                                                 *)
(***************************************************************************)
\* The argument combinations the resolver supports.
Supported(a) ==
    /\ a.format \in Format
    /\ a.format = "TORCHSCRIPT" => a.jit_type # None
    /\ a.format = "TORCH_TRT" => a.jit_type # None /\ a.precision # None
    /\ a.format = "TF_TRT" => a.precision # None
    /\ a.format = "TENSORRT" => a.precision # None

\* The file name of each format family.
FamilyFileName(format) ==
    CASE format = "ONNX" -> "model.onnx"
      [] format \in {"TORCHSCRIPT", "TORCH_TRT"} -> "model.pt"
      [] format \in {"TF_SAVEDMODEL", "TF_TRT"} -> "model.savedmodel"
      [] format = "TENSORRT" -> "model.plan"

\* The suffix an argument contributes: present iff the argument is non-default.
SuffixIf(present, suffix) == IF present THEN suffix ELSE ""

\* C7: for every supported argument combination the resolver returns a
\* two-component path: the directory is the format value followed by the
\* suffixes -<jit_type>, -xla, -jit, -<precision> in that order, each present
\* iff its argument is given (jit_type, precision) or is True (enable_xla,
\* jit_compile), and the file name is the one of the format family.
C7_PathShape ==
    (Called /\ Supported(args)) =>
        /\ result.ok
        /\ result.dir = FormatValue(args.format)
                           \o SuffixIf(args.jit_type # None, "-" \o args.jit_type)
                           \o SuffixIf(args.enable_xla = PyTrue, "-xla")
                           \o SuffixIf(args.jit_compile = PyTrue, "-jit")
                           \o SuffixIf(args.precision # None, "-" \o args.precision)
        /\ result.name = FamilyFileName(args.format)

\* A Torch-TRT path carrying all four suffixes has been resolved.
C7_Witness ==
    /\ Called
    /\ args = [format |-> "TORCH_TRT", jit_type |-> "script", precision |-> "fp16",
               enable_xla |-> PyTrue, jit_compile |-> PyTrue]
    /\ as_posix(result) = "torch-trt-script-xla-jit-fp16/model.pt"

\* C8: for every unsupported or underspecified combination (TensorRT or
\* TF-TRT without a precision, TorchScript without a jit type, Torch-TRT
\* lacking a jit type or a precision, a format outside the six known ones)
\* the resolver raises and returns no path.
C8_UnsupportedRaises ==
    (Called /\ ~Supported(args)) => result = PathError

\* TensorRT without a precision has been resolved, and raised.
C8_Witness ==
    /\ Called
    /\ args.format = "TENSORRT" /\ args.precision = None
    /\ result = PathError


(***************************************************************************)
(* The conversion commands' contract                                       *)
(***************************************************************************)
Invoked == cpc \in {"returned", "done"}
OutputPath == as_posix(get_output_relative_path(cmd))
InputPath == as_posix(exported_model_path(cmd))

\* C3 as stated: whenever the output artifact exists at invocation, whatever
\* the other inputs (SavedModel present or not, GPU available or not), the
\* call returns the existing output path, starts no external conversion, does
\* not raise, and the command does not end FAIL.
C3_CacheHit ==
    (Invoked /\ OutputPath \in before) =>
        /\ ~raised
        /\ returned = OutputPath
        /\ tool_runs = 0
        /\ workdir \cap {InputPath, OutputPath} = before \cap {InputPath, OutputPath}
        /\ cpc = "done" => cstatus # FAIL

\* C4 as stated: invoked with neither its input SavedModel nor its output
\* present, the command ends SKIPPED, returns no path, starts no external
\* conversion and raises nothing.
C4_MissingInputSkips ==
    (Invoked /\ InputPath \notin before /\ OutputPath \notin before) =>
        /\ cstatus = SKIPPED
        /\ returned = None
        /\ tool_runs = 0
        /\ ~raised

\* C5: within one run the command's status starts INITIALIZED and changes at
\* most once: a status other than INITIALIZED is never changed by a later
\* step of that run (a body that set SKIPPED and returned stays SKIPPED), and
\* the finished command holds OK, FAIL, SKIPPED or NOOP.
C5_StatusMonotonic ==
    /\ [](cpc = "ready" => cstatus = INITIALIZED)
    /\ [](cpc = "done" => cstatus \in {OK, FAIL, SKIPPED, NOOP})
    /\ [][(run' = run /\ cstatus # INITIALIZED) => cstatus' = cstatus]_vars

\* A body marked itself SKIPPED, returned, and the finished command is
\* still SKIPPED.
C5_Witness ==
    /\ cpc = "done"
    /\ InputPath \notin before /\ OutputPath \notin before
    /\ ~raised /\ returned = None
    /\ cstatus = SKIPPED

(***************************************************************************)
(* The builder's graph                                                     *)
(***************************************************************************)
CommandsOfType(t) == {i \in DOMAIN pipeline : pipeline[i].command_type = t}
CommandsOfClass(c) == {i \in DOMAIN pipeline : pipeline[i].cls = c}
Requires(i) == {pipeline[i].requires[k] : k \in DOMAIN pipeline[i].requires}

\* C9 as stated: a configuration that requests only ONNX, or only
\* TorchScript, yields a graph with no CORRECTNESS and no PERFORMANCE command.
C9_NoChecksForExportOnly ==
    (Built /\ config.target_formats \in {{"ONNX"}, {"TORCHSCRIPT"}}) =>
        CommandsOfType("CORRECTNESS") \cup CommandsOfType("PERFORMANCE") = {}

\* C9 amended: such a graph has no CONVERT command, and it checks what it
\* exports: for {ONNX} three CORRECTNESS and three PERFORMANCE commands (one
\* per runtime provider), for {TORCHSCRIPT} one of each per requested jit
\* type, every one of them requiring exactly one command, an EXPORT.
C9_ExportOnlyGraph ==
    (Built /\ config.target_formats \in {{"ONNX"}, {"TORCHSCRIPT"}}) =>
        LET n == IF config.target_formats = {"ONNX"} THEN 3
                 ELSE Len(config.target_jit_type)
        IN  /\ CommandsOfType("CONVERT") = {}
            /\ Cardinality(CommandsOfType("CORRECTNESS")) = n
            /\ Cardinality(CommandsOfType("PERFORMANCE")) = n
            /\ \A i \in CommandsOfType("CORRECTNESS") \cup CommandsOfType("PERFORMANCE") :
                   /\ Len(pipeline[i].requires) = 1
                   /\ Requires(i) \subseteq CommandsOfType("EXPORT")

\* An ONNX-only graph has been built and holds its six checks.
C9_Witness ==
    /\ Built
    /\ config.target_formats = {"ONNX"}
    /\ Cardinality(CommandsOfType("CORRECTNESS")) = 3
    /\ Cardinality(CommandsOfType("PERFORMANCE")) = 3

\* C10: whenever TENSORRT is a target format, with or without ONNX, the
\* graph holds exactly one ExportPYT2ONNX, one ConvertONNX2TRT per requested
\* precision, and every ConvertONNX2TRT requires that one export and
\* nothing else.
C10_SharedOnnxExport ==
    (Built /\ "TENSORRT" \in config.target_formats) =>
        /\ Cardinality(CommandsOfClass("ExportPYT2ONNX")) = 1
        /\ Cardinality(CommandsOfClass("ConvertONNX2TRT")) = Len(config.target_precisions)
        /\ \A c \in CommandsOfClass("ConvertONNX2TRT") :
               Requires(c) = CommandsOfClass("ExportPYT2ONNX")

\* ONNX and TensorRT were both requested with two precisions: two
\* conversions share the one export.
C10_Witness ==
    /\ Built
    /\ {"ONNX", "TENSORRT"} \subseteq config.target_formats
    /\ Cardinality(CommandsOfClass("ConvertONNX2TRT")) = 2
    /\ Cardinality(CommandsOfClass("ExportPYT2ONNX")) = 1
    /\ \A c \in CommandsOfClass("ConvertONNX2TRT") :
           Requires(c) = CommandsOfClass("ExportPYT2ONNX")

\* The format of the artifact a Command produces or checks: the
\* target_format it was given, else the one its class stands for.
ClassFormat(cls) ==
    CASE cls \in {"ExportPYT2TorchScript"} -> "TORCHSCRIPT"
      [] cls \in {"ExportPYT2TorchTensorRT"} -> "TORCH_TRT"
      [] cls \in {"ExportPYT2ONNX", "CorrectnessPYT2ONNX", "PerformanceONNX"} -> "ONNX"
      [] cls \in {"ConvertONNX2TRT", "CorrectnessPYT2TRT", "PerformanceTRT"} -> "TENSORRT"
      [] OTHER -> None

FormatOf(c) == IF c.target_format # None THEN c.target_format ELSE ClassFormat(c.cls)

Producers == CommandsOfType("EXPORT") \cup CommandsOfType("CONVERT")
Checks ==
    CommandsOfType("CORRECTNESS") \cup CommandsOfType("PERFORMANCE")
    \cup CommandsOfType("CONFIG_GEN")
DataDumps == CommandsOfType("DUMP_MODEL_DATA")

SameVariant(c, d) ==
    /\ c.target_jit_type = d.target_jit_type
    /\ c.target_precision = d.target_precision

\* C11: in every built graph each EXPORT requires the three metadata
\* commands, each CONVERT requires exactly the ONNX export, each CORRECTNESS,
\* PERFORMANCE and CONFIG_GEN command requires exactly one command, an
\* EXPORT or CONVERT of its own format and its own jit type and precision,
\* and the two data-dump commands are there iff save_data and require only
\* metadata-inference and input-fetch commands.
C11_EdgeWiring ==
    Built =>
        /\ \A e \in CommandsOfType("EXPORT") :
               /\ Len(pipeline[e].requires) = 3
               /\ Requires(e) = {infer_input, fetch_input, infer_output}
        /\ pipeline[infer_input].cls = "InferInputMetadata"
        /\ pipeline[fetch_input].cls = "FetchInputModelData"
        /\ pipeline[infer_output].cls = "InferOutputMetadata"
        /\ \A c \in CommandsOfType("CONVERT") :
               /\ Len(pipeline[c].requires) = 1
               /\ Requires(c) \subseteq CommandsOfClass("ExportPYT2ONNX")
        /\ \A k \in Checks :
               /\ Len(pipeline[k].requires) = 1
               /\ \A p \in Requires(k) :
                      /\ p \in Producers
                      /\ FormatOf(pipeline[p]) = FormatOf(pipeline[k])
                      /\ SameVariant(pipeline[p], pipeline[k])
        /\ (DataDumps # {}) <=> config.save_data
        /\ config.save_data =>
               /\ Cardinality(CommandsOfClass("DumpInputModelData")) = 1
               /\ Cardinality(CommandsOfClass("DumpOutputModelData")) = 1
        /\ \A d \in DataDumps :
               Requires(d) \subseteq
                   CommandsOfType("INFER_METADATA") \cup CommandsOfType("FETCH_INPUT_MODEL_DATA")

\* A graph with exports per jit type, conversions for two precisions and
\* the data dumps: an fp16 check hangs on the fp16 conversion, a trace
\* check on a trace export.
C11_Witness ==
    /\ Built
    /\ config.save_data /\ DataDumps # {}
    /\ config.target_precisions = <<"fp32", "fp16">>
    /\ \E k \in CommandsOfType("CORRECTNESS"), c \in CommandsOfType("CONVERT") :
           /\ pipeline[k].target_precision = "fp16"
           /\ pipeline[c].target_precision = "fp16"
           /\ Requires(k) = {c}
    /\ \E k \in CommandsOfType("CONFIG_GEN"), e \in CommandsOfType("EXPORT") :
           /\ pipeline[k].target_jit_type = "trace"
           /\ pipeline[e].target_jit_type = "trace"
           /\ FormatOf(pipeline[k]) = "TORCH_TRT"
           /\ Requires(k) = {e}

\* Where a Command of the graph writes its artifact: the resolver applied
\* to the format its class produces and to the jit type and precision the
\* builder gave it.
output_relative_path(c) ==
    format_to_relative_model_path(ClassFormat(c.cls), c.target_jit_type, c.target_precision,
                                  None, None)

\* The producers whose output path resolves.
Writers == {p \in Producers : output_relative_path(pipeline[p]).ok}

\* C12: in every built graph, for every set of target formats and every
\* list of jit types and precisions, no two distinct EXPORT or CONVERT
\* commands resolve to the same output path.
C12_SingleWriterPerPath ==
    Built =>
        \A p, q \in Writers :
            p # q => as_posix(output_relative_path(pipeline[p]))
                         # as_posix(output_relative_path(pipeline[q]))

\* The requires relation of the built graph, as the executor takes it.
RequiresRelation == [i \in DOMAIN pipeline |-> Requires(i)]

\* C13: in every built command list the requires relation is acyclic,
\* every required Command is a member of the list, and it stands at a
\* strictly earlier index than the Command requiring it, so a walk from
\* the front finds, at each index, all requirements among the Commands
\* already passed.
C13_InsertionOrderIsExecutionOrder ==
    Built =>
        /\ \A i \in DOMAIN pipeline : Requires(i) \subseteq DOMAIN pipeline
        /\ Acyclic(RequiresRelation)
        /\ \A i \in DOMAIN pipeline : \A r \in Requires(i) : r < i
        /\ \A i \in DOMAIN pipeline : Requires(i) \subseteq 1..(i - 1)

\* A graph whose longest chain runs through five edges: a TensorRT check,
\* its conversion, the ONNX export, and the three metadata commands.
C13_Witness ==
    /\ Built
    /\ \E k \in Checks, c \in CommandsOfType("CONVERT"), e \in CommandsOfType("EXPORT") :
           /\ c \in Requires(k) /\ e \in Requires(c)
           /\ infer_output \in Requires(e)
           /\ fetch_input \in Requires(infer_output)
           /\ infer_input \in Requires(fetch_input)
           /\ infer_input < fetch_input /\ fetch_input < infer_output
           /\ infer_output < e /\ e < c /\ c < k
    /\ CommandsOfClass("ExportPYT2TorchScript") # {}

(***************************************************************************)
(* SpecSample: extract_sample applied to every accepted sample             *)
(***************************************************************************)
Extracted == spc = "done"

SampleInit ==
    /\ framework \in Framework
    /\ input_metadata \in NameLists
    /\ sample \in SamplesOf(framework)
    /\ extracted = Returned(<<>>) /\ spc = "ready"
    /\ PathIdle /\ PipeIdle /\ ConvIdle /\ ExecIdle

ExtractSample ==
    /\ spc = "ready"
    /\ extracted' = extract_sample(sample, input_metadata, framework)
    /\ spc' = "done"
    /\ UNCHANGED <<sample, input_metadata, framework, pathVars, pipeVars, convVars, execVars>>

SpecSample == SampleInit /\ [][ExtractSample]_vars

MetadataNames == {input_metadata[i] : i \in DOMAIN input_metadata}
SampleKeys == {sample.items[i].key : i \in DOMAIN sample.items}

\* C14: extract_sample returns a mapping with exactly one entry per
\* metadata name; for a single tensor the one name maps to that tensor,
\* for a sequence with one tensor per name the i-th name maps to the i-th
\* tensor, and for a mapping whose keys are the metadata names each name
\* maps to the tensor the sample stores under that name, in whatever order
\* the sample holds its keys (tensors compared as the arrays to_numpy
\* makes of them).
C14_SampleNormalization ==
    Extracted =>
        /\ (sample.shape = "Tensor" /\ Len(input_metadata) = 1) =>
               /\ ~extracted.raised
               /\ Len(extracted.value) = 1
               /\ Keys(extracted.value) = MetadataNames
               /\ Get(extracted.value, input_metadata[1])
                      = to_numpy(sample.items[1].value, framework)
        /\ (sample.shape = "Sequence" /\ Len(sample.items) = Len(input_metadata)) =>
               /\ ~extracted.raised
               /\ Len(extracted.value) = Len(input_metadata)
               /\ Keys(extracted.value) = MetadataNames
               /\ \A i \in DOMAIN input_metadata :
                      Get(extracted.value, input_metadata[i])
                          = to_numpy(sample.items[i].value, framework)
        /\ (sample.shape = "Mapping" /\ SampleKeys = MetadataNames) =>
               /\ ~extracted.raised
               /\ Len(extracted.value) = Len(input_metadata)
               /\ Keys(extracted.value) = MetadataNames
               /\ \A i \in DOMAIN sample.items :
                      Get(extracted.value, sample.items[i].key)
                          = to_numpy(sample.items[i].value, framework)

=============================================================================
